---- MODULE Spec2Model ----
(***************************************************************************)
(* Convergence work chains of aiida-sssp-workflow.                         *)
(*                                                                         *)
(* A work chain is a process of the AiiDA engine: it owns a context (ctx), *)
(* runs the steps of its outline one after the other, and between two      *)
(* steps waits until every sub-process it put in the context (ToContext,   *)
(* to_context) has terminated.  A step that returns an exit code ends the  *)
(* work chain with that code; a step that raises ends it excepted.         *)
(*                                                                         *)
(* Spec  : ConvergenceCohesiveEnergyWorkChain (cohesive_energy.py)         *)
(* SpecP : ConvergencePressureWorkChain       (pressure.py)                *)
(* Both are instances of the same engine and share the engine's state.     *)
(***************************************************************************)
EXTENDS Integers, Sequences, FiniteSets, TLC

VARIABLES
    inputs,      \* the input ports of the work chain (self.inputs)
    ctx,         \* the context: a function from the keys that are set
    procs,       \* the sub-processes submitted so far; a process' pk is its index
    awaitables,  \* pks the work chain waits for before its next step
    step,        \* index in the outline of the next step to run
    state,       \* "running" | "finished" | "excepted"
    exit_code,   \* the exit code the work chain ended with, NoExit before
    outputs,     \* the output ports emitted with self.out
    trace,       \* the names of the steps run so far, in order
    attrs,       \* attributes set on the work chain object itself (self._X)
    calls        \* the calls of helper_compare_result_extract_fun made so far

vars == <<inputs, ctx, procs, awaitables, step, state, exit_code, outputs,
          trace, attrs, calls>>

-----------------------------------------------------------------------------
(* Bounds of the model *)

\* longest parameters.ecutwfc_list (and longest sample list) explored
MaxLen == 3

\* the entries an explored ecutwfc_list draws from: below, at and above 200
EcutChoices == {30, 200, 250}

\* the values of parameters.dual explored (the default is 8)
Duals == {-1, 2, 8}

\* the cohesive energies a finished CohesiveEnergyWorkChain may output
Energies == {-4, -2, 0}

-----------------------------------------------------------------------------
(* Generic helpers *)

\* d[k] = v, every other key as in d (a Python dict / AttributeDict assignment)
Put(d, k, v) == [x \in (DOMAIN d) \cup {k} |-> IF x = k THEN v ELSE d[x]]

\* the dict with no key
Empty == [x \in {} |-> 0]

\* all sequences over S of length 0..n
SeqsUpTo(S, n) == UNION {[1..k -> S] : k \in 0..n}

IsPrefix(s, t) == Len(s) <= Len(t) /\ \A i \in 1..Len(s) : s[i] = t[i]

NoExit == [status |-> -1, scalar |-> TRUE, pk |-> <<>>]

\* A python float quotient a / b, kept exact as the pair <<a, b>>.
Quot(a, b) == <<a, b>>

\* q * 100.0
Times100(q) == <<q[1] * 100, q[2]>>

-----------------------------------------------------------------------------
(* The engine: sub-processes *)

\* node.is_finished_ok
is_finished_ok(p) == p.terminated /\ p.ok

\* self.submit(cls, **inp): a new process node; its pk is its index in procs
Submitted(ps, cls, inp) ==
    Append(ps, [process_class |-> cls, inputs |-> inp, terminated |-> FALSE,
                ok |-> FALSE, outputs |-> Empty])

\* the step at position `step` may run: the work chain is running and
\* every awaitable of the previous step is resolved
MayRun(name, steps) ==
    /\ state = "running"
    /\ step <= Len(steps)
    /\ steps[step] = name
    /\ awaitables = {}

\* the step returned None: go on to the next step, or finish after the last
Proceed(steps) ==
    /\ step' = step + 1
    /\ state' = IF step = Len(steps) THEN "finished" ELSE "running"
    /\ exit_code' = IF step = Len(steps)
                    THEN [status |-> 0, scalar |-> TRUE, pk |-> <<>>]
                    ELSE exit_code

\* the step returned an ExitCode with a positive status
Exit(code) ==
    /\ step' = step
    /\ state' = "finished"
    /\ exit_code' = code

\* the step raised
Except ==
    /\ step' = step
    /\ state' = "excepted"
    /\ exit_code' = exit_code

-----------------------------------------------------------------------------
(* ConvergenceCohesiveEnergyWorkChain *)

\* a reference hard coded to a cutoff inside the default sweep
RefEcutwfcLow == 200 - 100

\* run_ref: "hard code to 200Ry at the moment"
ref_ecutwfc == 200

\* an outline that runs the sweep before the reference
OutlineSwapped == <<"setup", "validate_structure", "run_all", "run_ref", "results">>

outline == <<"setup", "validate_structure", "run_ref", "run_all", "results">>

\* exit_codes.ERROR_SUB_PROCESS_FAILED.format(pk=...): pk is an int in run_all
\* (scalar) and a list in results
ERROR_SUB_PROCESS_FAILED(scalar, pk) == [status |-> 400, scalar |-> scalar, pk |-> pk]

get_inputs(ecutwfc, ecutrho) ==
    LET PW_PARAS == [SYSTEM |-> [degauss |-> "0.01",
                                 occupations |-> "smearing",
                                 smearing |-> "marzari-vanderbilt",
                                 ecutrho |-> ecutrho,
                                 ecutwfc |-> ecutwfc]]
    IN  [code |-> inputs.code,
         pseudo |-> inputs.pseudo,
         structure |-> inputs.structure,
         parameters |-> [pw_bulk |-> PW_PARAS,
                         pw_atom |-> PW_PARAS,
                         kpoints_distance |-> "0.15",
                         vacuum_length |-> "12.0"]]

setup ==
    /\ MayRun("setup", outline)
    /\ Proceed(outline)
    /\ trace' = Append(trace, "setup")
    /\ UNCHANGED <<inputs, ctx, procs, awaitables, outputs, attrs, calls>>

validate_structure ==
    /\ MayRun("validate_structure", outline)
    /\ Proceed(outline)
    /\ trace' = Append(trace, "validate_structure")
    /\ UNCHANGED <<inputs, ctx, procs, awaitables, outputs, attrs, calls>>

RefEcutrho(dual) == ref_ecutwfc * dual

run_ref ==
    /\ MayRun("run_ref", outline)
    /\ LET ecutwfc == ref_ecutwfc
           ecutrho == RefEcutrho(inputs.parameters.dual)
           inp == get_inputs(ecutwfc, ecutrho)
           running == Len(procs) + 1
       IN  /\ procs' = Submitted(procs, "CohesiveEnergyWorkChain", inp)
           /\ ctx' = Put(ctx, "ref_workchain", running)
           /\ awaitables' = awaitables \cup {running}
           /\ Proceed(outline)
    /\ trace' = Append(trace, "run_ref")
    /\ UNCHANGED <<inputs, outputs, attrs, calls>>

\* run_all without the check of the reference
RefNeverFailed(ref_workchain) == FALSE

\* `not ref_workchain.is_finished_ok`
RefFailed(ref_workchain) == ~is_finished_ok(ref_workchain)

\* ecutrho as ecutwfc + dual
SiblingCutoffsSum(ecutwfc, dual) == [ecutwfc |-> ecutwfc, ecutrho |-> ecutwfc + dual]

\* the cutoffs of one sibling of run_all's loop
SiblingCutoffs(ecutwfc, dual) == [ecutwfc |-> ecutwfc, ecutrho |-> ecutwfc * dual]

\* run_all's loop over the first n entries of ecutwfc_list: the processes
\* submitted and the context with each appended to ctx.children
RECURSIVE SubmitAll(_, _, _)
SubmitAll(n, ps, c) ==
    IF n = 0 THEN [procs |-> ps, ctx |-> c]
    ELSE LET before == SubmitAll(n - 1, ps, c)
             cut == SiblingCutoffs(inputs.parameters.ecutwfc_list[n],
                                   inputs.parameters.dual)
             inp == get_inputs(cut.ecutwfc, cut.ecutrho)
             workchain == Len(before.procs) + 1
             children == IF "children" \in DOMAIN before.ctx
                         THEN before.ctx["children"] ELSE <<>>
         IN  [procs |-> Submitted(before.procs, "CohesiveEnergyWorkChain", inp),
              ctx |-> Put(before.ctx, "children", Append(children, workchain))]

run_all ==
    /\ MayRun("run_all", outline)
    /\ trace' = Append(trace, "run_all")
    /\ IF "ref_workchain" \notin DOMAIN ctx
       THEN \* AttributeError on self.ctx.ref_workchain
            Except /\ UNCHANGED <<ctx, procs, awaitables>>
       ELSE LET ref_workchain == procs[ctx["ref_workchain"]] IN
            IF RefFailed(ref_workchain)
            THEN /\ Exit(ERROR_SUB_PROCESS_FAILED(TRUE, <<ctx["ref_workchain"]>>))
                 /\ UNCHANGED <<ctx, procs, awaitables>>
            ELSE IF "output_parameters" \notin DOMAIN ref_workchain.outputs
            THEN \* no such output on the reference node
                 Except /\ UNCHANGED <<ctx, procs, awaitables>>
            ELSE LET c1 == Put(ctx, "ref_energy",
                               ref_workchain.outputs["output_parameters"].cohesive_energy)
                     all == SubmitAll(Len(inputs.parameters.ecutwfc_list), procs, c1)
                     new == (Len(procs) + 1)..Len(all.procs)
                 IN  /\ procs' = all.procs
                     /\ ctx' = all.ctx
                     /\ awaitables' = awaitables \cup new
                     /\ Proceed(outline)
    /\ UNCHANGED <<inputs, outputs, attrs, calls>>

\* the pks of all children, failed or not
FailedPksAll(children) == children

\* [child.pk for child in self.ctx.children if not child.is_finished_ok]
FailedPks(children) ==
    SelectSeq(children, LAMBDA pk : ~is_finished_ok(procs[pk]))

\* the difference relative to the sample instead of the reference
RelativeValueOfEnergy(energy, ref_energy) ==
    Times100(Quot(energy - ref_energy, energy))

\* (energy - ref_energy) / ref_energy * 100.0
RelativeValue(energy, ref_energy) ==
    Times100(Quot(energy - ref_energy, ref_energy))

\* [f[x] for x in s], f a function on pks
Map(s, f) == [i \in 1..Len(s) |-> f[s[i]]]

results ==
    /\ MayRun("results", outline)
    /\ trace' = Append(trace, "results")
    /\ IF "children" \notin DOMAIN ctx
       THEN \* AttributeError on self.ctx.children
            Except /\ outputs' = outputs
       ELSE LET pks == FailedPks(ctx["children"]) IN
            IF pks # <<>>
            THEN Exit(ERROR_SUB_PROCESS_FAILED(FALSE, pks)) /\ outputs' = outputs
            ELSE LET success_child ==
                         SelectSeq(ctx["children"], LAMBDA pk : is_finished_ok(procs[pk]))
                     ref_energy == ctx["ref_energy"]
                     Ecutwfc == [pk \in DOMAIN procs |->
                                    procs[pk].inputs.parameters.pw_bulk.SYSTEM.ecutwfc]
                     Ecutrho == [pk \in DOMAIN procs |->
                                    procs[pk].inputs.parameters.pw_bulk.SYSTEM.ecutrho]
                     Energy == [pk \in DOMAIN procs |->
                                   procs[pk].outputs["output_parameters"].cohesive_energy]
                     Relative == [pk \in DOMAIN procs |-> RelativeValue(Energy[pk], ref_energy)]
                     ecutwfc_list == Map(success_child, Ecutwfc)
                     ecutrho_list == Map(success_child, Ecutrho)
                     cohesive_energies == Map(success_child, Energy)
                     relative_values == Map(success_child, Relative)
                     xy_data == [x |-> ecutwfc_list, y |-> relative_values]
                     output_parameters ==
                         [ecutwfc_list |-> ecutwfc_list,
                          ecutrho_list |-> ecutrho_list,
                          cohesive_energies |-> cohesive_energies,
                          relative_values |-> relative_values,
                          cutoff_unit |-> "Ry",
                          cohesive_energy_unit |-> "eV/atom",
                          relative_unit |-> "%"]
                 IN  IF success_child # <<>> /\ ref_energy = 0
                     THEN \* ZeroDivisionError in the first pass of the loop
                          Except /\ outputs' = outputs
                     ELSE /\ outputs' = Put(Put(outputs, "output_parameters",
                                                output_parameters),
                                            "xy_data", xy_data)
                          /\ Proceed(outline)
    /\ UNCHANGED <<inputs, ctx, procs, awaitables, attrs, calls>>

\* a submitted CohesiveEnergyWorkChain terminates: finished with exit status 0
\* and a cohesive energy, or failed (non-zero exit status, excepted, killed)
Terminated(pk, ok, out) ==
    /\ procs' = [procs EXCEPT ![pk] = [@ EXCEPT !.terminated = TRUE, !.ok = ok,
                                                  !.outputs = out]]
    /\ awaitables' = awaitables \ {pk}
    /\ UNCHANGED <<inputs, ctx, step, state, exit_code, outputs, trace, attrs, calls>>

child_finished_ok ==
    \E pk \in 1..Len(procs), e \in Energies :
        /\ ~procs[pk].terminated
        /\ Terminated(pk, TRUE,
                      Put(Empty, "output_parameters", [cohesive_energy |-> e]))

child_failed ==
    \E pk \in 1..Len(procs) :
        /\ ~procs[pk].terminated
        /\ Terminated(pk, FALSE, Empty)

Init ==
    /\ inputs \in {[code |-> "pw.x", pseudo |-> "upf", structure |-> "structure",
                    parameters |-> [dual |-> d, ecutwfc_list |-> l]] :
                        d \in Duals, l \in SeqsUpTo(EcutChoices, MaxLen)}
    /\ ctx = Empty
    /\ procs = <<>>
    /\ awaitables = {}
    /\ step = 1
    /\ state = "running"
    /\ exit_code = NoExit
    /\ outputs = Empty
    /\ trace = <<>>
    /\ attrs = Empty
    /\ calls = <<>>

Next ==
    \/ setup
    \/ validate_structure
    \/ run_ref
    \/ run_all
    \/ results
    \/ child_finished_ok
    \/ child_failed

Spec == Init /\ [][Next]_vars

\* the engine keeps running the steps and every sub-process terminates
FairSpec == Spec /\ WF_vars(Next)

-----------------------------------------------------------------------------
(* Numbers.  A python float is kept as an exact rational <<n, d>> in lowest *)
(* terms with d > 0; rounding is not modelled.  A complex number is a      *)
(* record [re, im] of two rationals.                                       *)

RECURSIVE GCD(_, _)
GCD(a, b) == IF b = 0 THEN a ELSE GCD(b, a % b)

IAbs(n) == IF n < 0 THEN -n ELSE n

\* n / d with the common divisor g taken out and the sign in the numerator
Reduce(n, d, g) ==
    IF d < 0 THEN <<-(n \div g), -(d \div g)>> ELSE <<n \div g, d \div g>>

\* n / d in lowest terms
Rat(n, d) == Reduce(n, d, GCD(IAbs(n), IAbs(d)))

RInt(n) == <<n, 1>>

RNeg(a) == <<-a[1], a[2]>>

LCM(a, b) == (a \div GCD(a, b)) * b

\* a + b over the common denominator d
OverDenominator(a, b, d) == Rat(a[1] * (d \div a[2]) + b[1] * (d \div b[2]), d)

RAdd(a, b) == OverDenominator(a, b, LCM(a[2], b[2]))

RSub(a, b) == RAdd(a, RNeg(b))

RatProduct(p, q) == Rat(p[1] * q[1], p[2] * q[2])

\* a * b, the common divisors taken out before the products
RMul(a, b) == RatProduct(Rat(a[1], b[2]), Rat(b[1], a[2]))

\* a / b; b is not zero
RDiv(a, b) == RMul(a, Rat(b[2], b[1]))

\* abs(a)
RAbs(a) == <<IAbs(a[1]), a[2]>>

\* a < b
RLess(a, b) == RSub(a, b)[1] < 0

\* x ** 3
RCube(x) == RMul(x, RMul(x, x))

Complex(re, im) == [re |-> re, im |-> im]

CAdd(x, y) == Complex(RAdd(x.re, y.re), RAdd(x.im, y.im))

CMul(x, y) == Complex(RSub(RMul(x.re, y.re), RMul(x.im, y.im)),
                      RAdd(RMul(x.re, y.im), RMul(x.im, y.re)))

\* the value at x of the polynomial with coefficients p, highest power first
CZero == [re |-> <<0, 1>>, im |-> <<0, 1>>]

\* one step of Horner's rule: value * x + c
HornerStep(value, x, c) ==
    IF value = CZero THEN Complex(c, <<0, 1>>)
    ELSE CAdd(CMul(value, x), Complex(c, <<0, 1>>))

PolyVal(p, x) ==
    LET horner[n \in 0..Len(p)] ==
            IF n = 0 THEN CZero ELSE HornerStep(horner[n - 1], x, p[n])
    IN  horner[Len(p)]

\* the coefficients of the derivative of p
PolyDer(p) == [i \in 1..(Len(p) - 1) |-> RMul(p[i], RInt(Len(p) - i))]

\* how many times x is a root of p
RECURSIVE Multiplicity(_, _)
Multiplicity(p, x) ==
    IF Len(p) = 0 \/ PolyVal(p, x) # CZero THEN 0
    ELSE 1 + Multiplicity(PolyDer(p), x)

\* the number of leading zero coefficients of p
RECURSIVE LeadingZeros(_)
LeadingZeros(p) ==
    IF p = <<>> \/ p[1] # RInt(0) THEN 0 ELSE 1 + LeadingZeros(Tail(p))

\* the degree of p
Degree(p) == Len(p) - 1 - LeadingZeros(p)

RECURSIVE SumOver(_, _)
SumOver(S, f) ==
    IF S = {} THEN 0
    ELSE LET x == CHOOSE y \in S : TRUE IN f[x] + SumOver(S \ {x}, f)

\* the complex numbers the roots of a polynomial are looked for among
RootGrid ==
    {Complex(re, RInt(0)) :
        re \in {RInt(-2), RInt(-1), Rat(-1, 2), RInt(0), Rat(1, 2), RInt(1), RInt(2)}}
    \cup {Complex(RInt(0), im) : im \in {RInt(-1), RInt(1)}}

\* np.roots(p): the roots of p.  They are known when p has all its roots,
\* counted with their multiplicity, in RootGrid; the array is then kept as
\* the set of its values.
RootsFound(p, found) ==
    [known |-> SumOver(found, [x \in found |-> Multiplicity(p, x)]) = Degree(p),
     roots |-> found]

np_roots(p) == RootsFound(p, {x \in RootGrid : Multiplicity(p, x) > 0})

-----------------------------------------------------------------------------
(* pressure.py: the helper functions                                       *)

\* 160.21766208, the GPa in one eV/angs^3
GPa_per_eV_angs3 == Rat(250340097, 1562500)

\* the polynomial of degree three in x of the specification
PolynomialCubic(P, B0, B1) ==
    <<RMul(Rat(3, 4), RSub(B1, RInt(4))),
      RSub(RInt(1), RMul(Rat(3, 2), RSub(B1, RInt(4)))),
      RSub(RMul(Rat(3, 4), RSub(B1, RInt(4))), RInt(1)),
      RDiv(RMul(RInt(-2), P), RMul(RInt(3), B0))>>

\* the coefficients of the polynomial in x = (V0/V)^(1/3), P in eV/angs^3
Polynomial(P, B0, B1) ==
    <<RMul(Rat(3, 4), RSub(B1, RInt(4))),
      RInt(0),
      RSub(RInt(1), RMul(Rat(3, 2), RSub(B1, RInt(4)))),
      RInt(0),
      RSub(RMul(Rat(3, 4), RSub(B1, RInt(4))), RInt(1)),
      RInt(0),
      RInt(0),
      RInt(0),
      RInt(0),
      RDiv(RMul(RInt(-2), P), RMul(RInt(3), B0))>>

\* abs(x.imag) < 1e-8 * abs(x.real)
IsReal(x) == RLess(RAbs(x.im), RMul(Rat(1, 100000000), RAbs(x.re)))

\* abs(V - V0) / float(V0)
RelativeDistance(V, V0) == RDiv(RAbs(RSub(V, V0)), V0)

\* the candidate volumes: V0 / (x.real**3) for the roots x taken for real
Volumes(roots, V0) == {RDiv(V0, RCube(x.re)) : x \in {y \in roots : IsReal(y)}}

\* the volume the farthest from V0
FarthestVolume(volumes, V0) ==
    CHOOSE V \in volumes :
        \A W \in volumes : ~RLess(RelativeDistance(V, V0), RelativeDistance(W, V0))

\* min(volumes, key=lambda V: abs(V - V0) / float(V0))
ClosestVolume(volumes, V0) ==
    CHOOSE V \in volumes :
        \A W \in volumes : ~RLess(RelativeDistance(W, V0), RelativeDistance(V, V0))

\* what a call of a function ends with: a returned value or a raised exception
Returns(value) == [returns |-> value]

Raises(exception) == [raises |-> exception]

\* abs(V - V0) / V0 * 100
Percent(V, V0) == RMul(RDiv(RAbs(RSub(V, V0)), V0), <<100, 1>>)

\* the selection among the roots found, and the value returned.  It is a
\* float (in %) when the roots of the polynomial are known; when they are
\* not, the value returned is kept as the call, unevaluated.
SelectVolume(found, P, V0, B0, B1) ==
    IF ~found.known
    THEN Returns(<<"helper_get_volume_from_pressure_birch_murnaghan", P, V0, B0, B1>>)
    ELSE IF \E x \in found.roots : IsReal(x) /\ x.re = <<0, 1>>
    THEN Raises("ZeroDivisionError")
    ELSE IF Volumes(found.roots, V0) = {} THEN Raises("ValueError")
    ELSE Returns(Percent(ClosestVolume(Volumes(found.roots, V0), V0), V0))

\* helper_get_volume_from_pressure_birch_murnaghan(P, V0, B0, B1), P in GPa
helper_get_volume_from_pressure_birch_murnaghan(P, V0, B0, B1) ==
    SelectVolume(np_roots(Polynomial(RDiv(P, GPa_per_eV_angs3), B0, B1)),
                 P, V0, B0, B1)

-----------------------------------------------------------------------------
(* ConvergencePressureWorkChain(BaseLegacyWorkChain)                        *)
(*                                                                         *)
(* The base class (convergence/_base.py) and utils.update_dict are not     *)
(* among the sources; the definitions named BaseLegacyWorkChain_* and      *)
(* update_dict follow what pressure.py relies on: the context keys it      *)
(* reads, the methods it overrides and the way it calls them.              *)

\* the sample cutoffs a pressure convergence run draws from
SampleChoices == {30, 60}

\* the values of ctx.reference_ecutwfc explored for the pressure work chain
PressureReferences == {100, 200}

\* the values of ctx.dual explored for the pressure work chain
PressureDuals == {4, 8}

\* the hydrostatic stress (GPa) a finished PressureWorkChain may output:
\* -1 and 3 eV/angs^3
Stresses == {<<-250340097, 1562500>>, <<751020291, 1562500>>}

\* the fits a finished _EquationOfStateWorkChain may output
Fits == {[volume0 |-> <<20, 1>>, bulk_modulus0 |-> <<1, 1>>, bulk_deriv0 |-> <<4, 1>>],
         [volume0 |-> <<40, 1>>, bulk_modulus0 |-> <<2, 1>>, bulk_deriv0 |-> <<14, 3>>]}

BaseLegacyWorkChain_outline ==
    <<"init_setup", "setup_code_parameters_from_protocol", "run_reference",
      "inspect_reference", "run_samples", "inspect_samples", "finalize">>

\* exit_codes.ERROR_SUB_PROCESS_FAILED.format(label=...) of the base class
BaseLegacyWorkChain_ERROR_SUB_PROCESS_FAILED(label) ==
    [status |-> "ERROR_SUB_PROCESS_FAILED", label |-> label]

\* a step's return value when it returns nothing
None == [status |-> "None"]

\* update_dict(d, u) on one namelist: the keys of u overwrite those of d
UpdateNamelist(d, u) ==
    [k \in (DOMAIN d) \cup (DOMAIN u) |-> IF k \in DOMAIN u THEN u[k] ELSE d[k]]

\* update_dict(d, u): a new dict, u merged into d at every level
update_dict(d, u) ==
    [k \in (DOMAIN d) \cup (DOMAIN u) |->
        IF k \notin DOMAIN u THEN d[k]
        ELSE UpdateNamelist(IF k \in DOMAIN d THEN d[k] ELSE Empty, u[k])]

BaseLegacyWorkChain_get_pw_base_parameters(degauss, occupations, smearing, conv_thr) ==
    [SYSTEM |-> [degauss |-> degauss, occupations |-> occupations,
                 smearing |-> smearing],
     ELECTRONS |-> [conv_thr |-> conv_thr]]

\* BaseLegacyWorkChain.init_setup: the context keys every later step reads
BaseLegacyWorkChain_init_setup(c) ==
    Put(Put(Put(Put(c, "pseudos", inputs.pseudos),
                    "structure", inputs.structure),
                "options", inputs.options),
            "parallelization", inputs.parallelization)

init_setup ==
    /\ MayRun("init_setup", BaseLegacyWorkChain_outline)
    /\ ctx' = Put(BaseLegacyWorkChain_init_setup(ctx), "pw_parameters", Empty)
    /\ Proceed(BaseLegacyWorkChain_outline)
    /\ trace' = Append(trace, "init_setup")
    /\ UNCHANGED <<inputs, procs, awaitables, outputs, attrs, calls>>

\* BaseLegacyWorkChain.setup_code_parameters_from_protocol: protocol, cutoffs
BaseLegacyWorkChain_setup_code_parameters_from_protocol(c) ==
    Put(Put(Put(Put(c, "protocol", inputs.protocol),
                    "reference_ecutwfc", inputs.reference_ecutwfc),
                "dual", inputs.dual),
            "ecutwfc_list", inputs.ecutwfc_list)

setup_code_parameters_from_protocol ==
    /\ MayRun("setup_code_parameters_from_protocol", BaseLegacyWorkChain_outline)
    /\ LET c1 == BaseLegacyWorkChain_setup_code_parameters_from_protocol(ctx)
           protocol == c1["protocol"]
           a1 == [_DEGAUSS |-> protocol.degauss,
                  _OCCUPATIONS |-> protocol.occupations,
                  _SMEARING |-> protocol.smearing,
                  _CONV_THR |-> protocol.electron_conv_thr,
                  _KDISTANCE |-> protocol.kpoints_distance,
                  _EOS_SCALE_COUNT |-> protocol.scale_count,
                  _EOS_SCALE_INCREMENT |-> protocol.scale_increment]
           c2 == Put(c1, "pw_parameters",
                     BaseLegacyWorkChain_get_pw_base_parameters(
                         a1._DEGAUSS, a1._OCCUPATIONS, a1._SMEARING, a1._CONV_THR))
       IN  /\ attrs' = a1
           /\ ctx' = Put(c2, "kpoints_distance", a1._KDISTANCE)
    /\ Proceed(BaseLegacyWorkChain_outline)
    /\ trace' = Append(trace, "setup_code_parameters_from_protocol")
    /\ UNCHANGED <<inputs, procs, awaitables, outputs, calls>>

\* inputs of one evaluation PressureWorkChain, read from the context c
_get_inputs(c, ecutwfc, ecutrho) ==
    [code |-> inputs.pw_code,
     pseudos |-> c["pseudos"],
     structure |-> c["structure"],
     pw_base_parameters |-> c["pw_parameters"],
     ecutwfc |-> ecutwfc,
     ecutrho |-> ecutrho,
     kpoints_distance |-> c["kpoints_distance"],
     options |-> c["options"],
     parallelization |-> c["parallelization"],
     clean_workdir |-> FALSE]

\* BaseLegacyWorkChain.run_reference: the reference evaluation, put in
\* ctx.reference
BaseLegacyWorkChain_run_reference(ps, c) ==
    LET ecutwfc == c["reference_ecutwfc"]
        ecutrho == ecutwfc * c["dual"]
        inp == _get_inputs(c, ecutwfc, ecutrho)
    IN  [procs |-> Submitted(ps, "PressureWorkChain", inp),
         ctx |-> Put(c, "reference", Len(ps) + 1)]

\* the SYSTEM cutoffs run_reference writes into ctx.pw_parameters
EosCutoffs(c) ==
    [SYSTEM |-> [ecutwfc |-> c["reference_ecutwfc"],
                 ecutrho |-> c["reference_ecutwfc"] * c["dual"]]]

run_reference ==
    /\ MayRun("run_reference", BaseLegacyWorkChain_outline)
    /\ LET base == BaseLegacyWorkChain_run_reference(procs, ctx)
           parameters == EosCutoffs(base.ctx)
           c1 == Put(base.ctx, "pw_parameters",
                     update_dict(base.ctx["pw_parameters"], parameters))
           inp == [structure |-> c1["structure"],
                   kpoints_distance |-> attrs._KDISTANCE,
                   scale_count |-> attrs._EOS_SCALE_COUNT,
                   scale_increment |-> attrs._EOS_SCALE_INCREMENT,
                   metadata |-> [call_link_label |-> "EOS"],
                   scf |-> [pw |-> [code |-> inputs.pw_code,
                                    pseudos |-> c1["pseudos"],
                                    parameters |-> c1["pw_parameters"],
                                    metadata |-> [options |-> c1["options"]],
                                    parallelization |-> c1["parallelization"]]]]
           running == Len(base.procs) + 1
       IN  /\ procs' = Submitted(base.procs, "_EquationOfStateWorkChain", inp)
           /\ ctx' = Put(c1, "extra_reference", running)
           /\ awaitables' = awaitables \cup {Len(procs) + 1, running}
    /\ Proceed(BaseLegacyWorkChain_outline)
    /\ trace' = Append(trace, "run_reference")
    /\ UNCHANGED <<inputs, outputs, attrs, calls>>

\* BaseLegacyWorkChain.inspect_reference: what it returns
BaseLegacyWorkChain_inspect_reference ==
    IF ~is_finished_ok(procs[ctx["reference"]])
    THEN BaseLegacyWorkChain_ERROR_SUB_PROCESS_FAILED("reference")
    ELSE None

\* `not workchain.is_finished_ok` on ctx.extra_reference
ExtraFailed(workchain) == ~is_finished_ok(workchain)

\* bulk modulus and its derivative taken for one another
FitSwapped(fit) ==
    [V0 |-> fit.volume0, B0 |-> fit.bulk_deriv0, B1 |-> fit.bulk_modulus0]

\* ctx.extra_parameters from output_birch_murnaghan_fit
ExtraParameters(fit) ==
    [V0 |-> fit.volume0, B0 |-> fit.bulk_modulus0, B1 |-> fit.bulk_deriv0]

inspect_reference ==
    /\ MayRun("inspect_reference", BaseLegacyWorkChain_outline)
    /\ trace' = Append(trace, "inspect_reference")
    /\ LET inherited == BaseLegacyWorkChain_inspect_reference  \* value dropped
           workchain == procs[ctx["extra_reference"]]
       IN  IF ExtraFailed(workchain)
           THEN /\ Exit(BaseLegacyWorkChain_ERROR_SUB_PROCESS_FAILED("extra_reference"))
                /\ ctx' = ctx
           ELSE IF "output_birch_murnaghan_fit" \notin DOMAIN workchain.outputs
           THEN \* no such output on the node
                Except /\ ctx' = ctx
           ELSE /\ ctx' = Put(ctx, "extra_parameters",
                              ExtraParameters(
                                  workchain.outputs["output_birch_murnaghan_fit"]))
                /\ Proceed(BaseLegacyWorkChain_outline)
    /\ UNCHANGED <<inputs, procs, awaitables, outputs, attrs, calls>>

\* BaseLegacyWorkChain.run_samples over the first n sample cutoffs
RECURSIVE BaseLegacyWorkChain_run_samples(_, _, _)
BaseLegacyWorkChain_run_samples(n, ps, c) ==
    IF n = 0 THEN [procs |-> ps, ctx |-> c]
    ELSE LET before == BaseLegacyWorkChain_run_samples(n - 1, ps, c)
             ecutwfc == c["ecutwfc_list"][n]
             ecutrho == ecutwfc * c["dual"]
             inp == _get_inputs(before.ctx, ecutwfc, ecutrho)
             children == IF "children" \in DOMAIN before.ctx
                         THEN before.ctx["children"] ELSE <<>>
         IN  [procs |-> Submitted(before.procs, "PressureWorkChain", inp),
              ctx |-> Put(before.ctx, "children",
                          Append(children, Len(before.procs) + 1))]

run_samples ==
    /\ MayRun("run_samples", BaseLegacyWorkChain_outline)
    /\ LET all == BaseLegacyWorkChain_run_samples(Len(ctx["ecutwfc_list"]), procs, ctx)
       IN  /\ procs' = all.procs
           /\ ctx' = all.ctx
           /\ awaitables' = awaitables \cup ((Len(procs) + 1)..Len(all.procs))
    /\ Proceed(BaseLegacyWorkChain_outline)
    /\ trace' = Append(trace, "run_samples")
    /\ UNCHANGED <<inputs, outputs, attrs, calls>>

\* arguments (P in GPa, V0, B0, B1) at which the inversion is evaluated once
InversionArguments ==
    {RMul(RInt(n), GPa_per_eV_angs3) : n \in -1..4}
        \X {RInt(20), RInt(40)} \X {RInt(1), RInt(2)}
        \X {RInt(4), Rat(14, 3), Rat(32, 9), Rat(52, 9), Rat(16, 3)}

\* the pairs <<arguments, helper_get_volume_from_pressure_birch_murnaghan(arguments)>>
InversionValues ==
    {<<a, helper_get_volume_from_pressure_birch_murnaghan(a[1], a[2], a[3], a[4])>> :
        a \in InversionArguments}

\* a call of helper_get_volume_from_pressure_birch_murnaghan: its value is
\* looked up when it has been evaluated already
CallInversion(P, V0, B0, B1) ==
    IF <<P, V0, B0, B1>> \in InversionArguments
    THEN (CHOOSE v \in InversionValues : v[1] = <<P, V0, B0, B1>>)[2]
    ELSE helper_get_volume_from_pressure_birch_murnaghan(P, V0, B0, B1)

\* the orm.Dict returned by helper_pressure_difference, unless the inversion
\* raised
PressureDifference(res_pressure, absolute_diff, relative_diff) ==
    IF "raises" \in DOMAIN relative_diff THEN relative_diff
    ELSE Returns([pressure |-> res_pressure,
                  relative_diff |-> relative_diff.returns,
                  absolute_diff |-> absolute_diff,
                  absolute_unit |-> "GPascal",
                  relative_unit |-> "%"])

\* the inversion applied to the sample's pressure
helper_pressure_difference_of_sample(input_parameters, ref_parameters, V0, B0, B1) ==
    LET res_pressure == input_parameters.hydrostatic_stress
        ref_pressure == ref_parameters.hydrostatic_stress
        absolute_diff == RAbs(RSub(res_pressure, ref_pressure))
    IN  PressureDifference(res_pressure, absolute_diff,
                           CallInversion(res_pressure, V0, B0, B1))

\* helper_pressure_difference: relative_diff is the inversion of absolute_diff
helper_pressure_difference(input_parameters, ref_parameters, V0, B0, B1) ==
    LET res_pressure == input_parameters.hydrostatic_stress
        ref_pressure == ref_parameters.hydrostatic_stress
        absolute_diff == RAbs(RSub(res_pressure, ref_pressure))
    IN  PressureDifference(res_pressure, absolute_diff,
                           CallInversion(absolute_diff, V0, B0, B1))

helper_compare_result_extract_fun(sample_node, reference_node, kwargs) ==
    LET sample_output == sample_node.outputs["output_parameters"]
        reference_output == reference_node.outputs["output_parameters"]
        extra_parameters == kwargs.extra_parameters
    IN  helper_pressure_difference(sample_output, reference_output,
                                   extra_parameters.V0, extra_parameters.B0,
                                   extra_parameters.B1)

\* BaseLegacyWorkChain.inspect_samples: every sample that finished ok is
\* compared with the reference through helper_compare_result_extract_fun
inspect_samples ==
    /\ MayRun("inspect_samples", BaseLegacyWorkChain_outline)
    /\ trace' = Append(trace, "inspect_samples")
    /\ LET reference_node == procs[ctx["reference"]]
           children == IF "children" \in DOMAIN ctx THEN ctx["children"] ELSE <<>>
           success == SelectSeq(children, LAMBDA pk : is_finished_ok(procs[pk]))
           kwargs == [extra_parameters |-> ctx["extra_parameters"]]
           Call == [pk \in DOMAIN procs |->
                       [sample |-> pk, reference |-> ctx["reference"],
                        kwargs |-> kwargs]]
           Res == [pk \in DOMAIN procs |->
                      helper_compare_result_extract_fun(procs[pk], reference_node,
                                                        kwargs)]
       IN  IF success # <<>> /\ "output_parameters" \notin DOMAIN reference_node.outputs
           THEN \* the reference node has no output_parameters
                /\ Except
                /\ calls' = Append(calls, Call[success[1]])
                /\ ctx' = ctx
           ELSE \E compared \in {Map(success, Res)} :
                /\ calls' = calls \o Map(success, Call)
                /\ IF \E i \in DOMAIN compared : "raises" \in DOMAIN compared[i]
                   THEN \* a comparison raised
                        /\ Except
                        /\ ctx' = ctx
                   ELSE /\ ctx' = Put(ctx, "output_parameters",
                                      [i \in DOMAIN compared |-> compared[i].returns])
                        /\ Proceed(BaseLegacyWorkChain_outline)
    /\ UNCHANGED <<inputs, procs, awaitables, outputs, attrs>>

\* BaseLegacyWorkChain.finalize: the collected results become the output
finalize ==
    /\ MayRun("finalize", BaseLegacyWorkChain_outline)
    /\ outputs' = Put(outputs, "output_parameters", ctx["output_parameters"])
    /\ Proceed(BaseLegacyWorkChain_outline)
    /\ trace' = Append(trace, "finalize")
    /\ UNCHANGED <<inputs, ctx, procs, awaitables, attrs, calls>>

\* a submitted PressureWorkChain finishes with exit status 0
evaluation_finished_ok ==
    \E pk \in 1..Len(procs), s \in Stresses :
        /\ ~procs[pk].terminated
        /\ procs[pk].process_class = "PressureWorkChain"
        /\ Terminated(pk, TRUE,
                      Put(Empty, "output_parameters", [hydrostatic_stress |-> s]))

\* the submitted _EquationOfStateWorkChain finishes with exit status 0
eos_finished_ok ==
    \E pk \in 1..Len(procs), fit \in Fits :
        /\ ~procs[pk].terminated
        /\ procs[pk].process_class = "_EquationOfStateWorkChain"
        /\ Terminated(pk, TRUE, Put(Empty, "output_birch_murnaghan_fit", fit))

InitP ==
    /\ inputs \in {[pw_code |-> "pw.x", pseudos |-> "upf", structure |-> "structure",
                    options |-> "options", parallelization |-> "parallelization",
                    protocol |-> [degauss |-> "0.01", occupations |-> "smearing",
                                  smearing |-> "cold", electron_conv_thr |-> "1e-10",
                                  kpoints_distance |-> "0.15", scale_count |-> 7,
                                  scale_increment |-> "0.02"],
                    reference_ecutwfc |-> r, dual |-> d,
                    ecutwfc_list |-> l] :
                        r \in PressureReferences, d \in PressureDuals,
                        l \in SeqsUpTo(SampleChoices, MaxLen)}
    /\ ctx = Empty
    /\ procs = <<>>
    /\ awaitables = {}
    /\ step = 1
    /\ state = "running"
    /\ exit_code = NoExit
    /\ outputs = Empty
    /\ trace = <<>>
    /\ attrs = Empty
    /\ calls = <<>>

NextP ==
    \/ init_setup
    \/ setup_code_parameters_from_protocol
    \/ run_reference
    \/ inspect_reference
    \/ run_samples
    \/ inspect_samples
    \/ finalize
    \/ evaluation_finished_ok
    \/ eos_finished_ok
    \/ child_failed

SpecP == InitP /\ [][NextP]_vars

-----------------------------------------------------------------------------
(* The helper functions of pressure.py on their own: the arguments are     *)
(* drawn at the start, and each function is called once on them.           *)

\* hydrostatic stresses in GPa: -1, 0 and 3 eV/angs^3
HelperStresses == {RMul(RInt(n), GPa_per_eV_angs3) : n \in {-1, 0, 3}}

\* pressures in GPa handed to the inversion: 0, 1 and -1 eV/angs^3
HelperPressures == {RMul(RInt(n), GPa_per_eV_angs3) : n \in {0, 1, -1}}

HelperV0 == {RInt(20), RInt(40)}

HelperB0 == {RInt(1), RInt(2)}

\* B1 = 4 and values for which the polynomial at P = 0 has rational roots
HelperB1 == {RInt(4), Rat(14, 3), Rat(32, 9), Rat(52, 9), Rat(16, 3)}

InitH ==
    /\ inputs \in {[input_parameters |-> [hydrostatic_stress |-> s],
                    ref_parameters |-> [hydrostatic_stress |-> r],
                    P |-> P, V0 |-> V0, B0 |-> B0, B1 |-> B1] :
                        s \in HelperStresses, r \in HelperStresses,
                        P \in HelperPressures, V0 \in HelperV0,
                        B0 \in HelperB0, B1 \in HelperB1}
    /\ ctx = Empty
    /\ procs = <<>>
    /\ awaitables = {}
    /\ step = 1
    /\ state = "running"
    /\ exit_code = NoExit
    /\ outputs = Empty
    /\ trace = <<>>
    /\ attrs = Empty
    /\ calls = <<>>

call_helper_get_volume_from_pressure_birch_murnaghan ==
    /\ "relative_diff" \notin DOMAIN outputs
    /\ outputs' = Put(outputs, "relative_diff",
           CallInversion(inputs.P, inputs.V0, inputs.B0, inputs.B1))
    /\ UNCHANGED <<inputs, ctx, procs, awaitables, step, state, exit_code, trace,
                   attrs, calls>>

call_helper_pressure_difference ==
    /\ "pressure_difference" \notin DOMAIN outputs
    /\ outputs' = Put(outputs, "pressure_difference",
           helper_pressure_difference(inputs.input_parameters, inputs.ref_parameters,
                                      inputs.V0, inputs.B0, inputs.B1))
    /\ UNCHANGED <<inputs, ctx, procs, awaitables, step, state, exit_code, trace,
                   attrs, calls>>

NextH ==
    \/ call_helper_get_volume_from_pressure_birch_murnaghan
    \/ call_helper_pressure_difference

SpecH == InitH /\ [][NextH]_vars

-----------------------------------------------------------------------------
(* Properties of ConvergenceCohesiveEnergyWorkChain (Spec)                 *)

Ran(name) == \E i \in 1..Len(trace) : trace[i] = name

Ended == state \in {"finished", "excepted"}

\* the reference and the siblings of a cohesive energy run, by pk
RefPk == ctx["ref_workchain"]
Siblings == {pk \in 1..Len(procs) : "ref_workchain" \notin DOMAIN ctx \/ pk # RefPk}
Children == IF "children" \in DOMAIN ctx THEN ctx["children"] ELSE <<>>
EcutwfcOf(pk) == procs[pk].inputs.parameters.pw_bulk.SYSTEM.ecutwfc
EcutrhoOf(pk) == procs[pk].inputs.parameters.pw_bulk.SYSTEM.ecutrho
EnergyOf(pk) == procs[pk].outputs["output_parameters"].cohesive_energy
Emitted(port) == port \in DOMAIN outputs

\* C1: the steps run in the order setup, validate_structure, run_ref,
\* run_all, results; a sibling is only ever submitted after the reference
\* was submitted and has terminated; results has only run when every
\* submitted sibling has terminated.
C1_OutlineOrder ==
    /\ IsPrefix(trace, <<"setup", "validate_structure", "run_ref", "run_all",
                         "results">>)
    /\ \A pk \in Siblings :
          /\ "ref_workchain" \in DOMAIN ctx
          /\ RefPk < pk
          /\ procs[RefPk].terminated
    /\ Ran("results") => \A pk \in Siblings : procs[pk].terminated

C1_Witness ==
    /\ Ran("results")
    /\ Cardinality(Siblings) >= 2
    /\ state = "finished"

\* C2: once run_all has run on a reference that did not finish ok, the work
\* chain has ended with exit code 400 carrying the reference's pk, no sibling
\* was submitted, ctx.ref_energy is not set and no output is emitted.
C2_ReferenceFailed ==
    (Ran("run_all") /\ ~is_finished_ok(procs[RefPk])) =>
        /\ state = "finished"
        /\ exit_code.status = 400
        /\ exit_code.scalar
        /\ exit_code.pk = <<RefPk>>
        /\ Siblings = {}
        /\ "children" \notin DOMAIN ctx
        /\ "ref_energy" \notin DOMAIN ctx
        /\ ~Emitted("output_parameters")
        /\ ~Emitted("xy_data")
        /\ ~Ran("results")

C2_Witness == Ran("run_all") /\ ~is_finished_ok(procs[RefPk])

\* C3: once results has run with at least one sibling of ctx.children that
\* did not finish ok, the work chain has ended with exit code 400 whose pk
\* list holds exactly the failed siblings, in submission order, and no
\* output is emitted.
C3_SiblingFailed ==
    (Ran("results") /\ \E i \in 1..Len(Children) : ~is_finished_ok(procs[Children[i]])) =>
        /\ state = "finished"
        /\ exit_code.status = 400
        /\ ~exit_code.scalar
        /\ {exit_code.pk[i] : i \in 1..Len(exit_code.pk)}
               = {pk \in Siblings : ~is_finished_ok(procs[pk])}
        /\ \A i, j \in 1..Len(exit_code.pk) : i < j => exit_code.pk[i] < exit_code.pk[j]
        /\ ~Emitted("output_parameters")
        /\ ~Emitted("xy_data")

C3_Witness ==
    /\ Ran("results")
    /\ \E i, j \in 1..Len(Children) :
          /\ ~is_finished_ok(procs[Children[i]])
          /\ is_finished_ok(procs[Children[j]])
          /\ i > j
    /\ Cardinality({pk \in Siblings : ~is_finished_ok(procs[pk])}) >= 2

\* C5 as stated: whatever ecutwfc_list and dual are, the reference's ecutwfc
\* and ecutrho are at least those of every sibling.
C5_ReferenceIsHighest ==
    \A pk \in Siblings :
        /\ EcutwfcOf(RefPk) >= EcutwfcOf(pk)
        /\ EcutrhoOf(RefPk) >= EcutrhoOf(pk)

\* C5 amended: when no entry of ecutwfc_list exceeds 200 and dual is not
\* negative, the reference's ecutwfc and ecutrho are at least those of
\* every sibling.
C5_ReferenceIsHighestWithin200 ==
    ( /\ \A i \in 1..Len(inputs.parameters.ecutwfc_list) :
            inputs.parameters.ecutwfc_list[i] <= 200
      /\ inputs.parameters.dual >= 0 ) =>
        \A pk \in Siblings :
            /\ EcutwfcOf(RefPk) >= EcutwfcOf(pk)
            /\ EcutrhoOf(RefPk) >= EcutrhoOf(pk)

C5_Witness ==
    /\ inputs.parameters.dual > 0
    /\ \A i \in 1..Len(inputs.parameters.ecutwfc_list) :
          inputs.parameters.ecutwfc_list[i] <= 200
    /\ \E pk \in Siblings : EcutwfcOf(pk) = 200
    /\ \E pk \in Siblings : EcutwfcOf(pk) < 200

\* C6: once run_all has run on a reference that finished ok, there is one
\* sibling per entry of ecutwfc_list, submitted in list order with
\* ecutwfc = entry and ecutrho = entry * dual, and ctx.children lists them in
\* that order; the reference is never in ctx.children, has ecutwfc = 200 and
\* ecutrho = 200 * dual, and the run has submitted len(ecutwfc_list) + 1
\* processes.
C6_OneSiblingPerEntry ==
    /\ \A i \in 1..Len(Children) : Children[i] # RefPk
    /\ "ref_workchain" \in DOMAIN ctx =>
          /\ EcutwfcOf(RefPk) = 200
          /\ EcutrhoOf(RefPk) = 200 * inputs.parameters.dual
    /\ (Ran("run_all") /\ is_finished_ok(procs[RefPk])) =>
          LET list == inputs.parameters.ecutwfc_list IN
          /\ Len(procs) = Len(list) + 1
          /\ Len(Children) = Len(list)
          /\ \A i \in 1..Len(list) :
                /\ Children[i] = RefPk + i
                /\ EcutwfcOf(Children[i]) = list[i]
                /\ EcutrhoOf(Children[i]) = list[i] * inputs.parameters.dual
                /\ procs[Children[i]].inputs.parameters.pw_atom
                       = procs[Children[i]].inputs.parameters.pw_bulk

C6_Witness ==
    /\ Ran("run_all")
    /\ is_finished_ok(procs[RefPk])
    /\ Len(Children) >= 2
    /\ EcutwfcOf(Children[1]) > EcutwfcOf(Children[2])

\* C7: when output_parameters is emitted, its four lists have the length of
\* ctx.children, entry i of each comes from the i-th submitted sibling,
\* relative_values[i] is (cohesive_energies[i] - ref_energy) / ref_energy * 100
\* with ref_energy the reference's cohesive energy, and xy_data has the
\* ecutwfc values as x and the relative values as y.
C7_OutputsAligned ==
    Emitted("output_parameters") =>
        LET out == outputs["output_parameters"]
            ref_energy == EnergyOf(RefPk)
            n == Len(Children)
        IN  /\ Len(out.ecutwfc_list) = n
            /\ Len(out.ecutrho_list) = n
            /\ Len(out.cohesive_energies) = n
            /\ Len(out.relative_values) = n
            /\ \A i \in 1..n :
                  /\ Children[i] = RefPk + i
                  /\ out.ecutwfc_list[i] = EcutwfcOf(Children[i])
                  /\ out.ecutrho_list[i] = EcutrhoOf(Children[i])
                  /\ out.cohesive_energies[i] = EnergyOf(Children[i])
                  /\ ref_energy # 0
                  /\ out.relative_values[i][2] # 0
                  /\ out.relative_values[i][1] * ref_energy
                         = (out.cohesive_energies[i] - ref_energy) * 100
                               * out.relative_values[i][2]
            /\ Emitted("xy_data")
            /\ outputs["xy_data"].x = out.ecutwfc_list
            /\ outputs["xy_data"].y = out.relative_values

C7_Witness ==
    /\ Emitted("output_parameters")
    /\ Len(Children) >= 2
    /\ EnergyOf(Children[1]) # EnergyOf(Children[2])
    /\ EnergyOf(Children[1]) # EnergyOf(RefPk)
    /\ EcutwfcOf(Children[1]) # EcutwfcOf(Children[2])

\* C8 as stated: output_parameters and xy_data are emitted together or not at
\* all; a run that has ended emitted them if and only if the reference and
\* every sibling finished ok, and has otherwise ended with exit code 400.
C8_OutputsIffAllOk ==
    /\ Emitted("output_parameters") <=> Emitted("xy_data")
    /\ Ended =>
          /\ Emitted("output_parameters") <=>
                 /\ is_finished_ok(procs[RefPk])
                 /\ \A pk \in Siblings : is_finished_ok(procs[pk])
          /\ ~Emitted("output_parameters") =>
                 state = "finished" /\ exit_code.status = 400

\* C14 as stated: a run never stops in a step with an unhandled error, and
\* one that has ended has either exit code 400 or has completed with both
\* outputs emitted.
C14_EndsWith400OrOutputs ==
    /\ state # "excepted"
    /\ Ended =>
          \/ exit_code.status = 400
          \/ /\ exit_code.status = 0
             /\ Emitted("output_parameters")
             /\ Emitted("xy_data")

\* every run ends (finished or excepted) once its sub-processes terminate
C14_Ends == <>Ended

-----------------------------------------------------------------------------
(* Properties of ConvergencePressureWorkChain (SpecP)                      *)

Evaluations == {pk \in 1..Len(procs) : procs[pk].process_class = "PressureWorkChain"}

\* C4 as stated: once inspect_reference has run, it has returned the
\* ERROR_SUB_PROCESS_FAILED exit code and left ctx.extra_parameters unset
\* whenever the reference evaluation or the equation-of-state work chain did
\* not finish ok, and it has returned no exit code only when both did.
C4_GatedOnBothReferences ==
    Ran("inspect_reference") =>
        LET both == /\ is_finished_ok(procs[ctx["reference"]])
                    /\ is_finished_ok(procs[ctx["extra_reference"]])
            returned == /\ state = "finished"
                        /\ step = 4
                        /\ exit_code.status = "ERROR_SUB_PROCESS_FAILED"
        IN  /\ ~both => (returned /\ "extra_parameters" \notin DOMAIN ctx)
            /\ (step > 4) => both

C10_InputsDifferOnlyInCutoffs ==
    \A p, q \in Evaluations :
        /\ procs[p].inputs.clean_workdir = FALSE
        /\ procs[p].inputs.code = procs[q].inputs.code
        /\ procs[p].inputs.pseudos = procs[q].inputs.pseudos
        /\ procs[p].inputs.structure = procs[q].inputs.structure
        /\ procs[p].inputs.kpoints_distance = procs[q].inputs.kpoints_distance
        /\ procs[p].inputs.options = procs[q].inputs.options
        /\ procs[p].inputs.parallelization = procs[q].inputs.parallelization
        /\ procs[p].inputs.pw_base_parameters = procs[q].inputs.pw_base_parameters

-----------------------------------------------------------------------------
(* Properties of the helper functions (SpecH)                              *)

\* the coefficients handed to np.roots by the inversion called on the inputs
InversionPolynomial ==
    Polynomial(RDiv(inputs.P, GPa_per_eV_angs3), inputs.B0, inputs.B1)

\* C13 as stated: the polynomial whose roots the inversion finds is cubic
\* in x, that is of degree 3.
C13_PolynomialIsCubic ==
    Emitted("relative_diff") => Degree(InversionPolynomial) = 3

\* C13, amended: the polynomial has ten coefficients, of which only those
\* of x^9, x^7, x^5 and x^0 may differ from zero; it is of degree 9 in x,
\* or of degree 7 when B1 = 4.
C13_PolynomialIsOfDegreeNine ==
    Emitted("relative_diff") =>
        /\ Len(InversionPolynomial) = 10
        /\ \A i \in {2, 4, 6, 7, 8, 9} : InversionPolynomial[i] = RInt(0)
        /\ Degree(InversionPolynomial) = IF inputs.B1 = RInt(4) THEN 7 ELSE 9

\* the inversion has been called on a polynomial of degree 9 and a non-zero
\* pressure
C13_Witness ==
    /\ Emitted("relative_diff")
    /\ inputs.P # RInt(0)
    /\ Degree(InversionPolynomial) = 9

RealRoots == {x \in np_roots(InversionPolynomial).roots : x.im = RInt(0) /\ x.re # RInt(0)}

\* the relative distance to V0, times 100, of the volume V0 / x^3
PercentOf(x) ==
    RMul(RelativeDistance(RDiv(inputs.V0, RCube(x.re)), inputs.V0), RInt(100))

=============================================================================
